---- MODULE Spec2Model ----
(***************************************************************************)
(* reslacktions.py: for every member of a Slack team, sweep the paginated  *)
(* reactions.list of that member, tally the member's reactions per emoji,  *)
(* and cache the tally in reactions/<name>.pkl.                            *)
(*                                                                         *)
(* Encoding of Python values.  None is the string "None", kept apart from  *)
(* every str the remote can send.  An int used as an item identity is      *)
(* written "#<n>", so that it never equals a str identity (in Python       *)
(* 300 != "300").  A dict is a function whose DOMAIN is its key set; the   *)
(* insertion order of user_reactions (the row order of the DataFrame) is   *)
(* not kept.                                                               *)
(***************************************************************************)
EXTENDS Integers, Sequences, FiniteSets, TLC

VARIABLES
    users,                  \* __main__: get_users() as the list of (id, name) the loop walks
    idx,                    \* __main__: position of the for loop in users
    pc,                     \* where the program is: main, fetch, items, reacts, done, aborted
    error,                  \* the exception that ended the run ("none" while running)
    cache,                  \* the reactions/ directory: file name -> pickled DataFrame
    user_reactions,         \* get_reactions: emoji -> [total, first]
    messages_seen,          \* get_reactions: list of identities already counted
    cursor,                 \* get_reactions: the cursor returned by the last page
    kwargs,                 \* get_one_page: arguments of client.reactions_list
    res,                    \* get_one_page: the page in hand (None while fetching)
    internal_errors_left,   \* get_one_page: the internal-error budget
    i,                      \* get_one_page: position of `for item in res["items"]`
    reacts,                 \* get_one_page: reaction list of the item in hand
    j,                      \* get_one_page: position of `for react in reacts`
    slept,                  \* seconds the latest attempt slept (0: it succeeded)
    last_exc,               \* the SlackApiError of the latest attempt (error "none": it succeeded)
    sent,                   \* history: kwargs of the latest request issued for this page
    first_sent,             \* history: kwargs of the first request issued for this page
    prev_meta,              \* history: <<response_metadata>> of the previous page of this sweep
    fed,                    \* history: the pages the remote returned in this sweep
    rl_page,                \* history: rate-limited failures of the page request being fetched
    ie_page,                \* history: internal-error failures of the page request being fetched
    retried,                \* history: the page in hand came after a rate-limited failure
    n_pages,                \* history: pages the remote returned so far
    n_items,                \* history: items the remote returned so far
    truncated,              \* history: user ids whose sweep ended on an exhausted budget
    sweeps,                 \* history: the user ids get_reactions was called for in this run, in order
    cache_at_start,         \* history: the reactions/ directory when the sweep started
    cache_at_run_start,     \* history: the reactions/ directory when this run started
    collected,              \* history: user id -> the frame get_reactions returned for it in this run
    req_log                 \* history: the user ids of the requests of this run, a repeat written once

vars == <<users, idx, pc, error, cache, user_reactions, messages_seen, cursor, kwargs,
          res, internal_errors_left, i, reacts, j, slept, last_exc, sent, first_sent,
          prev_meta, fed, rl_page, ie_page, retried, n_pages, n_items,
          truncated, sweeps, cache_at_start, cache_at_run_start,
          collected, req_log>>

(***************************************************************************)
(* Bounds of the model.                                                    *)
(***************************************************************************)
MaxPages == 2            \* pages the remote returns in all
MaxItems == 2            \* items the remote returns in all
MaxRateLimited == 2      \* rate-limited failures of one page request

(***************************************************************************)
(* Program constants.                                                      *)
(***************************************************************************)
PageSize == 1000
InternalErrorBudget == 3
InternalErrorSleep == 3

None == "None"
Truthy(v) == v # None /\ v # ""
Range(s) == {s[k] : k \in DOMAIN s}
EmptyDict == [k \in {} |-> None]

(***************************************************************************)
(* The inputs: the member directory and what reactions.list can return.    *)
(***************************************************************************)
Member(id, name) == [id |-> id, profile |-> [real_name |-> name]]
\* users.list: two members whose names differ only by "/", and two with distinct names
Directories ==
    { <<Member("U1", <<"a", "/", "b">>), Member("U2", <<"a", " ", "b">>)>>,
      <<Member("U2", <<"c">>), Member("U1", <<"a", "/", "b">>)>> }

React(name, ids) == [name |-> name, users |-> ids]
\* a message: U1 first on +1, U2 first on eyes; the record also carries a file
MsgA == [message |-> [reactions |-> <<React("+1", <<"U1", "U2">>),
                                      React("eyes", <<"U2", "U1">>)>>,
                      ts |-> "100.1"],
         file |-> [reactions |-> <<React("tada", <<"U1", "U2">>)>>, created |-> "#700"]]
\* a file comment that also carries its file: only U2 reacted to the comment
CmtB == [comment |-> [reactions |-> <<React("+1", <<"U2">>)>>, timestamp |-> "#300"],
         file |-> [reactions |-> <<React("eyes", <<"U1">>)>>, created |-> "#500"]]
\* a file, created at the very time of CmtB's comment
FileC == [file |-> [reactions |-> <<React("eyes", <<"U1">>), React("+1", <<"U1", "U2">>)>>,
                    created |-> "#300"]]
\* a record of none of the three shapes, with reactions and a time of its own
OtherD == [type |-> "channel",
           reactions |-> <<React("+1", <<"U1", "U2">>)>>,
           ts |-> "100.1"]
\* a message record without its reactions field, that also carries a file
BadE == [message |-> [ts |-> "400.4"],
         file |-> [reactions |-> <<React("+1", <<"U1">>)>>, created |-> "#600"]]
Items == {MsgA, CmtB, FileC, OtherD, BadE}

RECURSIVE SeqsUpTo(_, _)
SeqsUpTo(S, n) ==
    IF n = 0 THEN {<<>>}
    ELSE LET shorter == SeqsUpTo(S, n - 1)
         IN shorter \cup {Append(s, x) : s \in {t \in shorter : Len(t) = n - 1}, x \in S}

\* the cursor the remote hands out with its k-th page
Cursors == <<"c1", "c2", "c3", "c4">>
\* response_metadata of the k-th page: no next_cursor, an empty one, or the k-th cursor
Metas(k) == {EmptyDict, [next_cursor |-> ""], [next_cursor |-> Cursors[k]]}
RetryAfterHeaders == {<<1>>, <<3, 0>>}

\* int(e.response.headers["Retry-After"]): the decimal value of the digit string
RECURSIVE ParseInt(_)
ParseInt(digits) ==
    IF digits = <<>> THEN 0
    ELSE 10 * ParseInt(SubSeq(digits, 1, Len(digits) - 1)) + digits[Len(digits)]

(***************************************************************************)
(* get_users                                                               *)
(***************************************************************************)
\* str.replace("/", " ")
Replace(s) == [k \in 1..Len(s) |-> IF s[k] = "/" THEN " " ELSE s[k]]

\* the dict {id: sanitized real_name}, as the list of its items in insertion order;
\* a later member with the id of an earlier one overwrites its name in place
RECURSIVE GetUsers(_)
GetUsers(members) ==
    IF members = <<>> THEN <<>>
    ELSE LET before == GetUsers(SubSeq(members, 1, Len(members) - 1))
             m == members[Len(members)]
             entry == [id |-> m.id, name |-> Replace(m.profile.real_name)]
         IN IF \E k \in DOMAIN before : before[k].id = m.id
            THEN [k \in DOMAIN before |-> IF before[k].id = m.id THEN entry ELSE before[k]]
            ELSE Append(before, entry)

\* faulty variant: every call is made for the member the loop started with
user_id_first == users[1].id

user_id == users[idx].id
user_name == users[idx].name

(***************************************************************************)
(* get_one_page: the pure parts                                            *)
(***************************************************************************)
\* faulty variant: the cursor argument is sent on every call
BuildKwargsAlways(uid, page_size, c) == [user |-> uid, count |-> page_size, cursor |-> c]

\* kwargs = {"user": ..., "count": ...}; if cursor: kwargs["cursor"] = cursor
BuildKwargs(uid, page_size, c) ==
    IF Truthy(c) THEN [user |-> uid, count |-> page_size, cursor |-> c]
    ELSE [user |-> uid, count |-> page_size]

\* res = {"items": [], "response_metadata": {}}
EmptyPage == [items |-> <<>>, response_metadata |-> EmptyDict]

\* item[shape]["reactions"], item[shape][key]: a missing field raises KeyError
Take(payload, key) ==
    IF "reactions" \in DOMAIN payload /\ key \in DOMAIN payload
    THEN [raised |-> FALSE, reacts |-> payload.reactions, message_ts |-> payload[key]]
    ELSE [raised |-> TRUE, reacts |-> <<>>, message_ts |-> None]

\* faulty variant: the file is looked at before the message and the comment
ClassifyFileFirst(item) ==
    IF "file" \in DOMAIN item THEN Take(item.file, "created")
    ELSE IF "message" \in DOMAIN item THEN Take(item.message, "ts")
    ELSE IF "comment" \in DOMAIN item THEN Take(item.comment, "timestamp")
    ELSE [raised |-> FALSE, reacts |-> <<>>, message_ts |-> "#0"]

\* the if/elif chain over "message", "comment", "file"
Classify(item) ==
    IF "message" \in DOMAIN item THEN Take(item.message, "ts")
    ELSE IF "comment" \in DOMAIN item THEN Take(item.comment, "timestamp")
    ELSE IF "file" \in DOMAIN item THEN Take(item.file, "created")
    ELSE [raised |-> FALSE, reacts |-> <<>>, message_ts |-> "#0"]

\* faulty variant: the ledger is not consulted
UnseenAlways(message_ts, seen) == TRUE

\* message_ts not in messages_seen
Unseen(message_ts, seen) == message_ts \notin Range(seen)

\* messages_seen.append(message_ts)
Mark(message_ts, seen) == Append(seen, message_ts)

\* user_reactions.get(name, {"total": 0, "first": 0})
Get(tally, name) ==
    IF name \in DOMAIN tally THEN tally[name] ELSE [total |-> 0, first |-> 0]

\* user_reactions[name] = value
Put(tally, name, value) ==
    [e \in DOMAIN tally \cup {name} |-> IF e = name THEN value ELSE tally[e]]

\* faulty variant: the first reactor is credited in place of being counted
ApplyReactFirstOnly(tally, react, uid) ==
    IF uid \in Range(react.users)
    THEN LET value == Get(tally, react.name)
         IN Put(tally, react.name,
                IF uid = react.users[1]
                THEN [value EXCEPT !.first = @ + 1]
                ELSE [value EXCEPT !.total = @ + 1])
    ELSE tally

\* faulty variant: every reactor is credited as first
ApplyReactCreditsAny(tally, react, uid) ==
    IF uid \in Range(react.users)
    THEN LET value == Get(tally, react.name)
         IN Put(tally, react.name, [total |-> value.total + 1, first |-> value.first + 1])
    ELSE tally

\* the body of `for react in reacts`
ApplyReact(tally, react, uid) ==
    IF uid \in Range(react.users)
    THEN LET value == Get(tally, react.name)
             counted == [value EXCEPT !.total = @ + 1]
             credited == IF uid = react.users[1]
                         THEN [counted EXCEPT !.first = @ + 1]
                         ELSE counted
         IN Put(tally, react.name, credited)
    ELSE tally

\* res["response_metadata"].get("next_cursor", None)
NextCursor(page) ==
    IF "next_cursor" \in DOMAIN page.response_metadata
    THEN page.response_metadata.next_cursor
    ELSE None

\* pd.DataFrame(data=[(k, v["total"], v["first"]) ...]): the rows, as a set
ToFrame(tally) == {<<e, tally[e].total, tally[e].first>> : e \in DOMAIN tally}

(***************************************************************************)
(* The state after construction: get_users() has answered, the reactions/  *)
(* directory is empty, no collection has started.                          *)
(***************************************************************************)
NoExc == [error |-> "none"]

InitOn(directories) ==
    /\ users \in {GetUsers(d) : d \in directories}
    /\ idx = 1
    /\ pc = "main"
    /\ error = "none"
    /\ cache = EmptyDict
    /\ user_reactions = EmptyDict
    /\ messages_seen = <<>>
    /\ cursor = None
    /\ kwargs = EmptyDict
    /\ res = EmptyPage
    /\ internal_errors_left = 0
    /\ i = 0
    /\ reacts = <<>>
    /\ j = 0
    /\ slept = 0
    /\ last_exc = NoExc
    /\ sent = EmptyDict
    /\ first_sent = EmptyDict
    /\ prev_meta = <<>>
    /\ fed = <<>>
    /\ rl_page = 0
    /\ ie_page = 0
    /\ retried = FALSE
    /\ n_pages = 0
    /\ n_items = 0
    /\ truncated = {}
    /\ sweeps = <<>>
    /\ cache_at_start = EmptyDict
    /\ cache_at_run_start = EmptyDict
    /\ collected = EmptyDict
    /\ req_log = <<>>

Init == InitOn(Directories)

(***************************************************************************)
(* get_one_page, lines 64-70: a page request starts.  res is None until    *)
(* pc leaves "fetch"; the value kept in res meanwhile is not read.         *)
(***************************************************************************)
\* faulty variant: the budget is set once per user and carried from page to page
GetOnePageEntrySticky(c) ==
    /\ kwargs' = BuildKwargs(user_id, PageSize, c)
    /\ internal_errors_left' = IF pc = "main" THEN InternalErrorBudget
                               ELSE internal_errors_left
    /\ pc' = "fetch"
    /\ res' = EmptyPage
    /\ i' = 0
    /\ j' = 0
    /\ reacts' = <<>>

GetOnePageEntry(c) ==
    /\ kwargs' = BuildKwargs(user_id, PageSize, c)
    /\ internal_errors_left' = InternalErrorBudget
    /\ pc' = "fetch"
    /\ res' = EmptyPage
    /\ i' = 0
    /\ j' = 0
    /\ reacts' = <<>>

\* the history of a page request starts with it
PageHistory ==
    /\ slept' = 0
    /\ last_exc' = NoExc
    /\ sent' = EmptyDict
    /\ first_sent' = EmptyDict
    /\ rl_page' = 0
    /\ ie_page' = 0
    /\ retried' = FALSE

\* client.reactions_list(**kwargs) is called
Request ==
    /\ sent' = kwargs
    /\ first_sent' = IF DOMAIN first_sent = {} THEN kwargs ELSE first_sent
    /\ req_log' = IF req_log # <<>> /\ req_log[Len(req_log)] = kwargs.user
                  THEN req_log
                  ELSE Append(req_log, kwargs.user)

(***************************************************************************)
(* get_reactions as a function of the pages alone, with no failed attempt  *)
(* and no pagination: the for loop of get_one_page over all their items.   *)
(***************************************************************************)
RECURSIVE FoldReacts(_, _, _)
FoldReacts(tally, rs, uid) ==
    IF rs = <<>> THEN tally
    ELSE FoldReacts(ApplyReact(tally, Head(rs), uid), Tail(rs), uid)

FoldItem(st, it, uid) ==
    LET c == Classify(it)
    IN IF st.raised THEN st
       ELSE IF c.raised THEN [st EXCEPT !.raised = TRUE]
       ELSE IF Unseen(c.message_ts, st.seen)
            THEN [raised |-> FALSE,
                  tally |-> FoldReacts(st.tally, c.reacts, uid),
                  seen |-> Mark(c.message_ts, st.seen)]
            ELSE st

RECURSIVE Collect(_, _)
Collect(its, uid) ==
    IF its = <<>> THEN [raised |-> FALSE, tally |-> EmptyDict, seen |-> <<>>]
    ELSE FoldItem(Collect(SubSeq(its, 1, Len(its) - 1), uid), its[Len(its)], uid)

RECURSIVE AllItems(_)
AllItems(pages) ==
    IF pages = <<>> THEN <<>> ELSE pages[1].items \o AllItems(Tail(pages))

(***************************************************************************)
(* __main__, lines 122-127 and 130-134                                     *)
(***************************************************************************)
\* faulty variant: the cache is not consulted
ExistsNever(files, name) == FALSE

\* file.exists(), line 126
Exists(files, name) == name \in DOMAIN files

\* the file of this member exists: the member is passed over
SkipCached ==
    /\ pc = "main"
    /\ idx <= Len(users)
    /\ Exists(cache, user_name)
    /\ idx' = idx + 1
    /\ UNCHANGED <<users, pc, error, cache, user_reactions, messages_seen, cursor, kwargs,
                   res, internal_errors_left, i, reacts, j, slept, last_exc, sent,
                   first_sent, prev_meta, fed, rl_page, ie_page, retried, n_pages,
                   n_items, truncated, sweeps, cache_at_start>>
    /\ UNCHANGED <<cache_at_run_start, collected, req_log>>

\* faulty variant: the ledger is one list for all the users of a run
StartCollectionShared ==
    /\ pc = "main"
    /\ idx <= Len(users)
    /\ ~Exists(cache, user_name)
    /\ user_reactions' = EmptyDict
    /\ messages_seen' = Collect(AllItems(fed), user_id).seen
    /\ cursor' = None
    /\ GetOnePageEntry(None)
    /\ PageHistory
    /\ prev_meta' = <<>>
    /\ fed' = <<>>
    /\ sweeps' = Append(sweeps, user_id)
    /\ cache_at_start' = cache
    /\ UNCHANGED <<users, idx, error, cache, n_pages, n_items, truncated>>
    /\ UNCHANGED <<cache_at_run_start, collected, req_log>>

\* get_reactions(user_id, page_size=1000) starts and enters its first get_one_page
StartCollection ==
    /\ pc = "main"
    /\ idx <= Len(users)
    /\ ~Exists(cache, user_name)
    /\ user_reactions' = EmptyDict
    /\ messages_seen' = <<>>
    /\ cursor' = None
    /\ GetOnePageEntry(None)
    /\ PageHistory
    /\ prev_meta' = <<>>
    /\ fed' = <<>>
    /\ sweeps' = Append(sweeps, user_id)
    /\ cache_at_start' = cache
    /\ UNCHANGED <<users, idx, error, cache, n_pages, n_items, truncated>>
    /\ UNCHANGED <<cache_at_run_start, collected, req_log>>

\* the loop is over; the cached frames are merged into all_reactions.csv
Finish ==
    /\ pc = "main"
    /\ idx > Len(users)
    /\ pc' = "done"
    /\ UNCHANGED <<users, idx, error, cache, user_reactions, messages_seen, cursor, kwargs,
                   res, internal_errors_left, i, reacts, j, slept, last_exc, sent,
                   first_sent, prev_meta, fed, rl_page, ie_page, retried, n_pages,
                   n_items, truncated, sweeps, cache_at_start>>
    /\ UNCHANGED <<cache_at_run_start, collected, req_log>>

\* the script is started again after it ended or aborted: the process starts
\* afresh, the reactions/ directory is what the run before left, and
\* get_users() returns the same members
Rerun ==
    /\ pc \in {"done", "aborted"}
    /\ cache_at_run_start' = cache
    /\ idx' = 1
    /\ pc' = "main"
    /\ error' = "none"
    /\ user_reactions' = EmptyDict
    /\ messages_seen' = <<>>
    /\ cursor' = None
    /\ kwargs' = EmptyDict
    /\ res' = EmptyPage
    /\ internal_errors_left' = 0
    /\ i' = 0
    /\ reacts' = <<>>
    /\ j' = 0
    /\ PageHistory
    /\ prev_meta' = <<>>
    /\ fed' = <<>>
    /\ truncated' = {}
    /\ sweeps' = <<>>
    /\ cache_at_start' = cache
    /\ collected' = EmptyDict
    /\ req_log' = <<>>
    /\ UNCHANGED <<users, cache, n_pages, n_items>>

(***************************************************************************)
(* get_one_page, lines 71-87: one turn of `while not res`.  Each handler   *)
(* says what the turn does to the variables of the program.                *)
(***************************************************************************)
\* line 73 succeeds: the loop ends and `for item in res["items"]` starts
OnSuccess(r) ==
    /\ res' = r
    /\ pc' = "items"
    /\ i' = 1
    /\ slept' = 0
    /\ UNCHANGED <<internal_errors_left, error, kwargs, user_reactions, messages_seen,
                   cursor>>

\* faulty variant: two seconds are added to Retry-After
RateLimitSleepPadded(delay) == delay + 2

\* time.sleep(delay) of the rate-limited branch
RateLimitSleep(delay) == delay

\* faulty variant: a rate-limited failure is charged to the internal-error budget
OnRateLimitedCounted(header) ==
    /\ slept' = ParseInt(header)
    /\ internal_errors_left' = internal_errors_left - 1
    /\ UNCHANGED <<res, pc, i, error, kwargs, user_reactions, messages_seen, cursor>>

\* faulty variant: a rate-limited page is given up as an empty page
OnRateLimitedGiveUp(header) ==
    /\ slept' = ParseInt(header)
    /\ res' = EmptyPage
    /\ pc' = "items"
    /\ i' = 1
    /\ UNCHANGED <<internal_errors_left, error, kwargs, user_reactions, messages_seen,
                   cursor>>

\* faulty variant: a rate-limited failure restores the internal-error budget
OnRateLimitedRestores(header) ==
    /\ slept' = RateLimitSleep(ParseInt(header))
    /\ internal_errors_left' = InternalErrorBudget
    /\ UNCHANGED <<res, pc, i, error, kwargs, user_reactions, messages_seen, cursor>>

\* lines 75-78
OnRateLimited(header) ==
    /\ slept' = RateLimitSleep(ParseInt(header))
    /\ UNCHANGED <<res, pc, i, internal_errors_left, error, kwargs, user_reactions,
                   messages_seen, cursor>>

\* faulty variant: the exhausted budget raises the error
OnInternalErrorRaise ==
    /\ internal_errors_left' = internal_errors_left - 1
    /\ slept' = InternalErrorSleep
    /\ IF internal_errors_left' <= 0
       THEN pc' = "aborted" /\ error' = "SlackApiError"
       ELSE UNCHANGED <<pc, error>>
    /\ UNCHANGED <<res, i, kwargs, user_reactions, messages_seen, cursor>>

\* faulty variant: an internal error is slept on and not charged to the budget
OnInternalErrorNoCharge ==
    /\ slept' = InternalErrorSleep
    /\ UNCHANGED <<internal_errors_left, res, pc, i, error, kwargs, user_reactions,
                   messages_seen, cursor>>

\* faulty variant: after an internal error the page is asked for again without its cursor
OnInternalErrorDropsCursor ==
    /\ internal_errors_left' = internal_errors_left - 1
    /\ slept' = InternalErrorSleep
    /\ kwargs' = BuildKwargs(kwargs.user, kwargs.count, None)
    /\ IF internal_errors_left' <= 0
       THEN res' = EmptyPage /\ pc' = "items" /\ i' = 1
       ELSE UNCHANGED <<res, pc, i>>
    /\ UNCHANGED <<error, user_reactions, messages_seen, cursor>>

\* lines 79-85
OnInternalError ==
    /\ internal_errors_left' = internal_errors_left - 1
    /\ slept' = InternalErrorSleep
    /\ IF internal_errors_left' <= 0
       THEN res' = EmptyPage /\ pc' = "items" /\ i' = 1
       ELSE UNCHANGED <<res, pc, i>>
    /\ UNCHANGED <<error, kwargs, user_reactions, messages_seen, cursor>>

\* faulty variant: an unknown error is retried like a rate-limited one
OnOtherErrorRetry ==
    UNCHANGED <<pc, error, res, i, internal_errors_left, slept, kwargs, user_reactions,
                messages_seen, cursor>>

\* lines 86-87: raise e; nothing catches it
OnOtherError ==
    /\ pc' = "aborted"
    /\ error' = "SlackApiError"
    /\ UNCHANGED <<res, i, internal_errors_left, slept, kwargs, user_reactions,
                   messages_seen, cursor>>

ReceivePage(r) ==
    /\ pc = "fetch"
    /\ n_pages < MaxPages
    /\ n_items + Len(r.items) <= MaxItems
    /\ Request
    /\ OnSuccess(r)
    /\ last_exc' = NoExc
    /\ fed' = Append(fed, r)
    /\ n_pages' = n_pages + 1
    /\ n_items' = n_items + Len(r.items)
    /\ retried' = (rl_page > 0)
    /\ rl_page' = 0
    /\ ie_page' = 0
    /\ UNCHANGED <<users, idx, cache, reacts, j, prev_meta, truncated, sweeps,
                   cache_at_start>>
    /\ UNCHANGED <<cache_at_run_start, collected>>

RateLimited(header) ==
    /\ pc = "fetch"
    /\ rl_page < MaxRateLimited
    /\ Request
    /\ OnRateLimited(header)
    /\ last_exc' = [error |-> "ratelimited", retry_after |-> header]
    /\ rl_page' = rl_page + 1
    /\ UNCHANGED <<users, idx, cache, reacts, j, prev_meta, fed, ie_page, retried, n_pages, n_items, truncated, sweeps, cache_at_start>>
    /\ UNCHANGED <<cache_at_run_start, collected>>

InternalError ==
    /\ pc = "fetch"
    /\ Request
    /\ OnInternalError
    /\ last_exc' = [error |-> "internal_error"]
    /\ ie_page' = ie_page + 1
    /\ truncated' = IF pc' = "items" THEN truncated \cup {user_id} ELSE truncated
    /\ UNCHANGED <<users, idx, cache, reacts, j, prev_meta, fed, rl_page, retried, n_pages, n_items, sweeps, cache_at_start>>
    /\ UNCHANGED <<cache_at_run_start, collected>>

OtherError ==
    /\ pc = "fetch"
    /\ Request
    /\ OnOtherError
    /\ last_exc' = [error |-> "account_inactive"]
    /\ UNCHANGED <<users, idx, cache, reacts, j, prev_meta, fed, rl_page, ie_page,
                   retried, n_pages, n_items, truncated, sweeps, cache_at_start>>
    /\ UNCHANGED <<cache_at_run_start, collected>>

(***************************************************************************)
(* get_one_page, lines 90-112: the items of the page in hand               *)
(***************************************************************************)
item == res.items[i]

\* lines 91-102 raise KeyError on a record without its reactions or its time field
ItemRaises ==
    /\ pc = "items"
    /\ i <= Len(res.items)
    /\ Classify(item).raised
    /\ pc' = "aborted"
    /\ error' = "KeyError"
    /\ UNCHANGED <<users, idx, cache, user_reactions, messages_seen, cursor, kwargs, res,
                   internal_errors_left, i, reacts, j, slept, last_exc, sent, first_sent,
                   prev_meta, fed, rl_page, ie_page, retried, n_pages, n_items,
                   truncated, sweeps, cache_at_start>>
    /\ UNCHANGED <<cache_at_run_start, collected, req_log>>

\* lines 91-105 on an identity that is in messages_seen: the item is passed over
ItemSeen ==
    /\ pc = "items"
    /\ i <= Len(res.items)
    /\ ~Classify(item).raised
    /\ ~Unseen(Classify(item).message_ts, messages_seen)
    /\ reacts' = Classify(item).reacts
    /\ i' = i + 1
    /\ UNCHANGED <<users, idx, pc, error, cache, user_reactions, messages_seen, cursor,
                   kwargs, res, internal_errors_left, j, slept, last_exc, sent, first_sent,
                   prev_meta, fed, rl_page, ie_page, retried, n_pages, n_items,
                   truncated, sweeps, cache_at_start>>
    /\ UNCHANGED <<cache_at_run_start, collected, req_log>>

\* lines 91-105 on a new identity: it is marked, and `for react in reacts` starts
ItemFresh ==
    /\ pc = "items"
    /\ i <= Len(res.items)
    /\ ~Classify(item).raised
    /\ Unseen(Classify(item).message_ts, messages_seen)
    /\ messages_seen' = Mark(Classify(item).message_ts, messages_seen)
    /\ reacts' = Classify(item).reacts
    /\ IF reacts' = <<>>
       THEN i' = i + 1 /\ UNCHANGED <<pc, j>>
       ELSE j' = 1 /\ pc' = "reacts" /\ i' = i
    /\ UNCHANGED <<users, idx, error, cache, user_reactions, cursor, kwargs, res,
                   internal_errors_left, slept, last_exc, sent, first_sent, prev_meta,
                   fed, rl_page, ie_page, retried, n_pages, n_items, truncated,
                   sweeps, cache_at_start>>
    /\ UNCHANGED <<cache_at_run_start, collected, req_log>>

\* lines 107-112 on reacts[j]; after the last reaction the items loop goes on
CountReaction ==
    /\ pc = "reacts"
    /\ j <= Len(reacts)
    /\ user_reactions' = ApplyReact(user_reactions, reacts[j], user_id)
    /\ IF j = Len(reacts)
       THEN i' = i + 1 /\ pc' = "items" /\ j' = j
       ELSE j' = j + 1 /\ UNCHANGED <<pc, i>>
    /\ UNCHANGED <<users, idx, error, cache, messages_seen, cursor, kwargs, res,
                   internal_errors_left, reacts, slept, last_exc, sent, first_sent,
                   prev_meta, fed, rl_page, ie_page, retried, n_pages, n_items,
                   truncated, sweeps, cache_at_start>>
    /\ UNCHANGED <<cache_at_run_start, collected, req_log>>

(***************************************************************************)
(* get_one_page, line 114, and get_reactions, lines 39-46                  *)
(***************************************************************************)
\* the page returns a cursor: `while cursor` enters get_one_page again
ContinuePagination ==
    /\ pc = "items"
    /\ i > Len(res.items)
    /\ Truthy(NextCursor(res))
    /\ cursor' = NextCursor(res)
    /\ GetOnePageEntry(cursor')
    /\ PageHistory
    /\ prev_meta' = <<res.response_metadata>>
    /\ UNCHANGED <<users, idx, error, cache, user_reactions, messages_seen, fed,
                   n_pages, n_items, truncated, sweeps, cache_at_start>>
    /\ UNCHANGED <<cache_at_run_start, collected, req_log>>

\* to_pickle(file), line 127
ToPickle(files, name, frame) ==
    [f \in DOMAIN files \cup {name} |-> IF f = name THEN frame ELSE files[f]]

\* the page returns None or "": get_reactions returns the frame, which is pickled;
\* the frames of get_one_page and get_reactions are gone
FinishCollection ==
    /\ pc = "items"
    /\ i > Len(res.items)
    /\ ~Truthy(NextCursor(res))
    /\ cache' = ToPickle(cache, user_name, ToFrame(user_reactions))
    /\ idx' = idx + 1
    /\ pc' = "main"
    /\ cursor' = None
    /\ user_reactions' = EmptyDict
    /\ messages_seen' = <<>>
    /\ kwargs' = EmptyDict
    /\ res' = EmptyPage
    /\ internal_errors_left' = 0
    /\ i' = 0
    /\ j' = 0
    /\ reacts' = <<>>
    /\ UNCHANGED <<users, error, slept, last_exc, sent, first_sent, prev_meta, fed,
                   rl_page, ie_page, retried, n_pages, n_items, truncated, sweeps,
                   cache_at_start>>
    /\ collected' = Put(collected, user_id, ToFrame(user_reactions))
    /\ UNCHANGED <<cache_at_run_start, req_log>>

\* the pages of at most n items, and what the remote may answer within the bounds
Pages == [n \in 0..MaxItems |-> SeqsUpTo(Items, n)]
Responses ==
    IF n_pages < MaxPages
    THEN [items : Pages[MaxItems - n_items], response_metadata : Metas(n_pages + 1)]
    ELSE {}

\* a step of the script
RunStep ==
    \/ SkipCached
    \/ StartCollection
    \/ Finish
    \/ \E r \in Responses : ReceivePage(r)
    \/ \E h \in RetryAfterHeaders : RateLimited(h)
    \/ InternalError
    \/ OtherError
    \/ ItemRaises
    \/ ItemSeen
    \/ ItemFresh
    \/ CountReaction
    \/ ContinuePagination
    \/ FinishCollection

Next ==
    \/ RunStep
    \/ Rerun

Spec == Init /\ [][Next]_vars

\* The collection of one user: the team has one member.  The interpreter goes
\* on as long as the script has a step to take, and every request is answered;
\* nothing makes a user start the script again.
OneMember == {<<Member("U1", <<"a", "/", "b">>)>>}
InitOne == InitOn(OneMember)
FairSpec == InitOne /\ [][Next]_vars /\ WF_vars(RunStep)

(***************************************************************************)
(* Vocabulary of the properties                                            *)
(***************************************************************************)
InSweep == pc \in {"fetch", "items", "reacts"}
PageDone == pc = "items" /\ i > Len(res.items)
Exhausted == ie_page >= InternalErrorBudget
RemoveAt(s, k) == SubSeq(s, 1, k - 1) \o SubSeq(s, k + 1, Len(s))
\* positions of the items that repeat an earlier item of the sequence
Repeats(its) == {k \in DOMAIN its : \E m \in 1..(k - 1) : its[m] = its[k]}
Count(s, x) == Cardinality({k \in DOMAIN s : s[k] = x})

(***************************************************************************)
(* C1: in every state of a collection, and in every cached frame, the      *)
(* first-reactor count of every emoji is at most its total count.          *)
(***************************************************************************)
C1_FirstAtMostTotal ==
    /\ \A e \in DOMAIN user_reactions :
          /\ 0 <= user_reactions[e].first
          /\ user_reactions[e].first <= user_reactions[e].total
    /\ \A f \in DOMAIN cache : \A row \in cache[f] : 0 <= row[3] /\ row[3] <= row[2]

\* a cached tally built over failed attempts, with first < total on one emoji and
\* first = total on another
C1_Witness ==
    /\ pc = "main"
    /\ retried
    /\ \E f \in DOMAIN cache : {<<"+1", 2, 2>>, <<"eyes", 2, 1>>} \subseteq cache[f]

(***************************************************************************)
(* C2: an item is folded only when its identity is not in the ledger, and  *)
(* is marked at once (the ledger never holds an identity twice, and while  *)
(* the reactions of an item are counted its identity is the last one       *)
(* marked); so when a page has been processed, the tally is the one the    *)
(* same pages give with any one repeated item removed.                     *)
(***************************************************************************)
C2_Dedup ==
    /\ \A k \in DOMAIN messages_seen : Count(messages_seen, messages_seen[k]) = 1
    /\ pc = "reacts" =>
          /\ messages_seen # <<>>
          /\ messages_seen[Len(messages_seen)] = Classify(res.items[i]).message_ts
    /\ PageDone =>
          \A k \in Repeats(AllItems(fed)) :
              user_reactions = Collect(RemoveAt(AllItems(fed), k), user_id).tally

\* the same message on two consecutive pages, counted once
C2_Witness ==
    /\ PageDone
    /\ Len(fed) = 2
    /\ fed[1].items = <<MsgA>>
    /\ fed[2].items = <<MsgA>>
    /\ user_id = "U1"
    /\ user_reactions = [e \in {"+1", "eyes"} |->
                            IF e = "+1" THEN [total |-> 1, first |-> 1]
                            ELSE [total |-> 1, first |-> 0]]

(***************************************************************************)
(* C3: the third internal-error failure of a page request raises nothing,  *)
(* leaves an empty page with no continuation in hand, adds nothing to the  *)
(* tally, and ends the sweep of that user: no request is issued for the    *)
(* user any more and the tally of the earlier pages is cached.             *)
(***************************************************************************)
C3_BudgetExhausted ==
    /\ Exhausted =>
          /\ error = "none"
          /\ pc \in {"items", "main", "done"}
          /\ sweeps[Len(sweeps)] \in truncated
          /\ pc = "items" =>
                /\ res = EmptyPage
                /\ NextCursor(res) = None
                /\ user_reactions = Collect(AllItems(fed), user_id).tally
          /\ pc \in {"main", "done"} =>
                \E k \in DOMAIN users :
                    /\ users[k].id = sweeps[Len(sweeps)]
                    /\ users[k].name \in DOMAIN cache
                    /\ cache[users[k].name] =
                          ToFrame(Collect(AllItems(fed), users[k].id).tally)
    /\ (pc \in {"fetch", "reacts"} \/ (pc = "items" /\ ~Exhausted)) =>
          user_id \notin truncated

\* a sweep truncated after a page that counted: the page's tally is cached
C3_Witness ==
    /\ Exhausted
    /\ pc = "main"
    /\ Len(fed) = 1
    /\ fed[1].items = <<MsgA>>
    /\ \E f \in DOMAIN cache : <<"+1", 1, 1>> \in cache[f]

(***************************************************************************)
(* C4: a failure that is neither rate-limited nor internal-error is not    *)
(* retried: the run ends on the SlackApiError, nothing more happens, the   *)
(* user in flight has no cache entry and the cache is as it was when the   *)
(* user's collection started.                                              *)
(***************************************************************************)
C4_FatalError ==
    last_exc.error = "account_inactive" =>
        /\ pc = "aborted"
        /\ error = "SlackApiError"
        /\ ~ENABLED RunStep
        /\ sweeps[Len(sweeps)] = user_id
        /\ user_name \notin DOMAIN cache
        /\ cache = cache_at_start

\* the second member fails fatally after the first member's tally was cached
C4_Witness ==
    /\ last_exc.error = "account_inactive"
    /\ idx = 2
    /\ Len(fed) = 1
    /\ \E f \in DOMAIN cache : cache[f] # {}

(***************************************************************************)
(* C5: after a rate-limited failure, however many came before, the page    *)
(* request is still being fetched with the same arguments, no error is     *)
(* raised and the internal-error budget is what the internal-error         *)
(* failures alone left.                                                    *)
(***************************************************************************)
C5_RateLimitedRetried ==
    last_exc.error = "ratelimited" =>
        /\ pc = "fetch"
        /\ error = "none"
        /\ kwargs = first_sent
        /\ internal_errors_left = InternalErrorBudget - ie_page
        /\ internal_errors_left > 0

\* the last of MaxRateLimited rate-limited failures, interleaved with internal errors
C5_Witness ==
    /\ last_exc.error = "ratelimited"
    /\ rl_page = MaxRateLimited
    /\ ie_page = 2
    /\ internal_errors_left = 1

C7_RetryTransparent ==
    (PageDone /\ ~Exhausted) =>
        /\ fed # <<>>
        /\ res = fed[Len(fed)]
        /\ sent = first_sent
        /\ user_reactions = Collect(AllItems(fed), user_id).tally
        /\ messages_seen = Collect(AllItems(fed), user_id).seen
        /\ NextCursor(res) = NextCursor(fed[Len(fed)])

\* the second page arrived after a rate-limited failure and was counted
C7_Witness ==
    /\ PageDone
    /\ retried
    /\ Len(fed) = 2
    /\ fed[2].items = <<FileC>>
    /\ user_id = "U1"
    /\ "eyes" \in DOMAIN user_reactions
    /\ user_reactions["eyes"].total = 2

(***************************************************************************)
(* C8: while a page is fetched, the budget is 3 less the internal-error    *)
(* failures of this page request alone; a page request is given up only    *)
(* on its own third internal-error failure.                                *)
(***************************************************************************)
C8_FreshBudget ==
    /\ pc = "fetch" =>
          /\ internal_errors_left = InternalErrorBudget - ie_page
          /\ ie_page < InternalErrorBudget
    /\ (pc = "items" /\ user_id \in truncated) => ie_page = InternalErrorBudget

\* the second member's page has failed twice, after the first member's sweep
\* was given up on a third failure
C8_Witness ==
    /\ pc = "fetch"
    /\ Len(sweeps) = 2
    /\ sweeps[1] \in truncated
    /\ ie_page = 2
    /\ internal_errors_left = 1

(***************************************************************************)
(* C9: the requests of the first page of a sweep carry no cursor argument; *)
(* the requests of a later page carry the next_cursor of the page before,  *)
(* which is neither None nor empty; no page is requested after a page      *)
(* whose next_cursor is None or empty.                                     *)
(***************************************************************************)
C9_CursorProtocol ==
    /\ DOMAIN sent # {} =>
          /\ sent = kwargs \/ ~InSweep
          /\ IF prev_meta = <<>>
             THEN "cursor" \notin DOMAIN sent
             ELSE /\ "cursor" \in DOMAIN sent
                  /\ "next_cursor" \in DOMAIN prev_meta[1]
                  /\ sent.cursor = prev_meta[1].next_cursor
                  /\ sent.cursor \notin {"", None}
    /\ \A k \in 1..(Len(fed) - 1) : Truthy(NextCursor(fed[k]))
    /\ (pc = "fetch" /\ fed # <<>>) =>
          /\ Truthy(NextCursor(fed[Len(fed)]))
          /\ prev_meta = <<fed[Len(fed)].response_metadata>>
    /\ (pc = "fetch" /\ fed = <<>>) => prev_meta = <<>>

\* a retried request of the second page carries the cursor the first page returned
C9_Witness ==
    /\ pc = "fetch"
    /\ rl_page >= 1
    /\ Len(fed) = 1
    /\ NextCursor(fed[1]) = "c2"
    /\ "cursor" \in DOMAIN sent
    /\ sent.cursor = "c2"

(***************************************************************************)
(* C10: counting one reaction of a new item adds 1 to the emoji's total    *)
(* exactly when the target user is in the reaction's user list, and then   *)
(* adds 1 to its first count exactly when the user is at position 0; a     *)
(* missing emoji starts at 0, 0; every other emoji keeps its entry.        *)
(***************************************************************************)
C10_Step ==
    pc = "reacts" =>
        LET r == reacts[j]
            present == \E k \in DOMAIN r.users : r.users[k] = user_id
            atzero == r.users # <<>> /\ r.users[1] = user_id
            old == IF r.name \in DOMAIN user_reactions
                   THEN user_reactions[r.name]
                   ELSE [total |-> 0, first |-> 0]
        IN /\ present =>
                /\ DOMAIN user_reactions' = DOMAIN user_reactions \cup {r.name}
                /\ user_reactions'[r.name].total = old.total + 1
                /\ user_reactions'[r.name].first = old.first + (IF atzero THEN 1 ELSE 0)
           /\ ~present => user_reactions' = user_reactions
           /\ \A e \in DOMAIN user_reactions \ {r.name} :
                /\ e \in DOMAIN user_reactions'
                /\ user_reactions'[e] = user_reactions[e]

C10_TallyUpdate == [][C10_Step]_vars

\* U1 is on the eyes reaction of the message but not first: total 1, first 0
C10_Witness ==
    /\ pc = "items"
    /\ user_id = "U1"
    /\ res.items = <<MsgA>>
    /\ i = 2
    /\ Len(fed) = 1
    /\ user_reactions = [e \in {"+1", "eyes"} |->
                            IF e = "+1" THEN [total |-> 1, first |-> 1]
                            ELSE [total |-> 1, first |-> 0]]

\* the members of the directory in hand, and the file names they are cached under
MemberOf(uid) == CHOOSE k \in DOMAIN users : users[k].id = uid
AllCached(files) == \A k \in DOMAIN users : users[k].name \in DOMAIN files

(***************************************************************************)
(* C11: when a run that started on an empty reactions/ directory is over   *)
(* without an error, get_reactions has been called exactly once for every  *)
(* member, and the file of every member holds the frame get_reactions      *)
(* returned for that member's own id.                                      *)
(***************************************************************************)
C11_EveryMemberCollected ==
    (pc = "done" /\ cache_at_run_start = EmptyDict) =>
        \A k \in DOMAIN users :
            /\ Count(sweeps, users[k].id) = 1
            /\ users[k].id \in DOMAIN collected
            /\ users[k].name \in DOMAIN cache
            /\ cache[users[k].name] = collected[users[k].id]

(***************************************************************************)
(* C12: a file that exists when the run starts is neither rewritten nor    *)
(* removed; get_reactions is called, and requests are issued, only for     *)
(* members whose file did not exist when the run started nor when the      *)
(* member was reached; a run that ends without an error leaves a file for  *)
(* every member, and a run that starts with a file for every member calls  *)
(* get_reactions for nobody, issues no request and leaves the directory    *)
(* as it found it.                                                         *)
(***************************************************************************)
C12_CacheCheckpoint ==
    /\ \A f \in DOMAIN cache_at_run_start :
          f \in DOMAIN cache /\ cache[f] = cache_at_run_start[f]
    /\ \A k \in DOMAIN sweeps :
          users[MemberOf(sweeps[k])].name \notin DOMAIN cache_at_run_start
    /\ Range(req_log) \subseteq Range(sweeps)
    /\ InSweep => (sweeps[Len(sweeps)] = users[idx].id /\ users[idx].name \notin DOMAIN cache_at_start)
    /\ pc = "done" => AllCached(cache)
    /\ AllCached(cache_at_run_start) =>
          (sweeps = <<>> /\ req_log = <<>> /\ cache = cache_at_run_start)

\* a run started after an aborted one: the first member, cached by the run
\* before, was passed over and keeps its file; only the second was collected
C12_Witness ==
    /\ pc = "done"
    /\ cache_at_run_start # EmptyDict
    /\ users[1].name \in DOMAIN cache_at_run_start
    /\ cache_at_run_start[users[1].name] # {}
    /\ sweeps = <<users[2].id>>
    /\ req_log = <<users[2].id>>
    /\ users[2].name \in DOMAIN cache
    /\ cache[users[2].name] # {}

\* the three shapes in the order of their priority, and the time field of each
Shapes == <<"message", "comment", "file">>
TimeKey == [message |-> "ts", comment |-> "timestamp", file |-> "created"]
HasShape(it) == \E k \in DOMAIN Shapes : Shapes[k] \in DOMAIN it
ShapeOf(it) ==
    Shapes[CHOOSE k \in DOMAIN Shapes :
               /\ Shapes[k] \in DOMAIN it
               /\ \A m \in 1..(k - 1) : Shapes[m] \notin DOMAIN it]
\* the record of the shape has the two fields that are read from it
Complete(it) ==
    /\ "reactions" \in DOMAIN it[ShapeOf(it)]
    /\ TimeKey[ShapeOf(it)] \in DOMAIN it[ShapeOf(it)]
\* the item the items loop dealt with last
Dealt == res.items[i - 1]

(***************************************************************************)
(* C13: an item the loop has dealt with was read through the first of      *)
(* message, comment, file it carries, which had both its fields: the       *)
(* reactions in hand are the reactions of that shape and the identity in   *)
(* the ledger is its ts, timestamp or created.  An item of none of the     *)
(* shapes left no reactions in hand and the identity 0 in the ledger; no   *)
(* reaction is ever counted for such an item, and a sweep of such items    *)
(* alone has an empty tally.                                               *)
(***************************************************************************)
C13_ClassificationPriority ==
    /\ (pc = "items" /\ i > 1) =>
          IF HasShape(Dealt)
          THEN /\ Complete(Dealt)
               /\ reacts = Dealt[ShapeOf(Dealt)].reactions
               /\ Dealt[ShapeOf(Dealt)][TimeKey[ShapeOf(Dealt)]] \in Range(messages_seen)
          ELSE /\ reacts = <<>>
               /\ "#0" \in Range(messages_seen)
    /\ pc = "reacts" =>
          /\ HasShape(item)
          /\ Complete(item)
          /\ reacts = item[ShapeOf(item)].reactions
          /\ messages_seen[Len(messages_seen)] = item[ShapeOf(item)][TimeKey[ShapeOf(item)]]
    /\ (InSweep /\ \A p \in DOMAIN fed : \A k \in DOMAIN fed[p].items : ~HasShape(fed[p].items[k])) =>
          user_reactions = EmptyDict

\* a page of a comment that carries its file, then a record of no shape:
\* U2 is credited for the comment alone
C13_Witness ==
    /\ PageDone
    /\ user_id = "U2"
    /\ res.items = <<CmtB, OtherD>>
    /\ messages_seen = <<"#300", "#0">>
    /\ user_reactions = [e \in {"+1"} |-> [total |-> 1, first |-> 1]]

(***************************************************************************)
(* C14: no run ends on an exception raised while an item is classified:    *)
(* whatever record a page holds, the items loop goes on to the next item.  *)
(***************************************************************************)
C14_ClassifyNeverRaises ==
    /\ error # "KeyError"
    /\ (pc = "items" /\ i <= Len(res.items)) => ENABLED (ItemSeen \/ ItemFresh)

(***************************************************************************)
(* C15: when the first page of a user is about to be requested the tally   *)
(* and the ledger are empty, and when any page is about to be requested    *)
(* they are those of the pages of this user's sweep alone: nothing counted *)
(* or marked in the sweep of another user is in them.                      *)
(***************************************************************************)
C15_FreshPerUser ==
    (pc = "fetch" /\ DOMAIN sent = {}) =>
        /\ fed = <<>> => (user_reactions = EmptyDict /\ messages_seen = <<>>)
        /\ user_reactions = Collect(AllItems(fed), users[idx].id).tally
        /\ messages_seen = Collect(AllItems(fed), users[idx].id).seen

\* U1's sweep counted the message that U2's sweep, the one before, had
\* counted and marked
C15_Witness ==
    /\ PageDone
    /\ Len(sweeps) = 2
    /\ user_id = "U1"
    /\ fed = <<res>>
    /\ res.items = <<MsgA>>
    /\ messages_seen = <<"100.1">>
    /\ user_reactions["+1"] = [total |-> 1, first |-> 1]
    /\ <<"eyes", 1, 1>> \in cache[<<"c">>]

(***************************************************************************)
(* C16: the requests of a run come user by user, in the order the loop     *)
(* reaches the users: the requests of one user are consecutive, each is    *)
(* issued for the member the loop is at, and when the first request of a   *)
(* user is issued every user requested for before has been processed to    *)
(* the end and has its file.                                               *)
(***************************************************************************)
C16_Sequential ==
    /\ \A a, b \in DOMAIN req_log : a # b => req_log[a] # req_log[b]
    /\ \A k \in 1..(Len(req_log) - 1) : users[MemberOf(req_log[k])].name \in DOMAIN cache
    /\ req_log = IF pc = "fetch" /\ DOMAIN sent = {} /\ fed = <<>>
                 THEN SubSeq(sweeps, 1, Len(sweeps) - 1)
                 ELSE sweeps
    /\ (InSweep /\ DOMAIN sent # {}) =>
          /\ sent.user = users[idx].id
          /\ req_log[Len(req_log)] = users[idx].id

\* the first member took two pages; the second member's first request has
\* just failed rate-limited
C16_Witness ==
    /\ pc = "fetch"
    /\ idx = 2
    /\ n_pages = 2
    /\ users[1].name \in DOMAIN cache
    /\ req_log = <<users[1].id, users[2].id>>
    /\ last_exc.error = "ratelimited"
    /\ sent.user = users[2].id

(***************************************************************************)
(* C17: a page request never has more than 3 internal-error failures; as   *)
(* long as it is being fetched, whatever rate-limited failures it had and  *)
(* wherever they fell, its budget and its internal-error failures add up   *)
(* to 3; at its third internal-error failure it has ended with an empty    *)
(* page, however many rate-limited failures it had.                        *)
(***************************************************************************)
C17_BudgetCumulative ==
    /\ ie_page <= InternalErrorBudget
    /\ (pc = "fetch" /\ rl_page > 0) =>
          internal_errors_left + ie_page = InternalErrorBudget
    /\ (InSweep /\ ie_page = InternalErrorBudget) =>
          /\ pc = "items"
          /\ res = EmptyPage
          /\ internal_errors_left = 0
          /\ last_exc.error = "internal_error"
    /\ (InSweep /\ ie_page < InternalErrorBudget /\ last_exc.error = "internal_error") =>
          pc = "fetch"

\* two internal-error failures, then a rate-limited one: one failure is left
C17_Witness ==
    /\ pc = "fetch"
    /\ rl_page = 1
    /\ ie_page = 2
    /\ last_exc.error = "ratelimited"
    /\ slept = 30
    /\ internal_errors_left = 1

(***************************************************************************)
(* C18: an attempt of a page request, failed or not, leaves the tally and  *)
(* the ledger as they were; an attempt that is followed by another leaves  *)
(* the arguments of the request and the cursor as they were, so that the   *)
(* request issued is the one first issued for the page.  The tally changes *)
(* only when a reaction of the page in hand is counted and the ledger only *)
(* when an item of the page in hand is dealt with (or when the frame of    *)
(* get_reactions is gone).                                                 *)
(***************************************************************************)
C18_Step ==
    /\ pc = "fetch" =>
          /\ user_reactions' = user_reactions
          /\ messages_seen' = messages_seen
          /\ sent' = kwargs
    /\ (pc = "fetch" /\ pc' = "fetch") =>
          /\ kwargs' = kwargs
          /\ cursor' = cursor
          /\ sent' = first_sent'
          /\ res' = res
    /\ user_reactions' # user_reactions => (pc = "reacts" \/ pc' = "main")
    /\ messages_seen' # messages_seen =>
          ((pc = "items" /\ i <= Len(res.items)) \/ pc' = "main")

C18_FailedAttemptFrame == [][C18_Step]_vars

\* the request of a second page has failed on an internal error: the tally and
\* the ledger of the first page are in place and the cursor is still asked for
C18_Witness ==
    /\ pc = "fetch"
    /\ last_exc.error = "internal_error"
    /\ "cursor" \in DOMAIN kwargs
    /\ sent = kwargs
    /\ sent = first_sent
    /\ fed # <<>>
    /\ messages_seen = <<"100.1">>
    /\ user_reactions = Collect(AllItems(fed), user_id).tally
    /\ user_reactions # EmptyDict

(***************************************************************************)
(* The work a sweep has left, as a tuple ordered from its first element:   *)
(* the pages the remote may still return; whether a page is in hand (2),   *)
(* being fetched (1) or given up (0); within a fetch the failures that may *)
(* still come, within a page the items left; within an item the reactions  *)
(* left.                                                                   *)
(***************************************************************************)
Rank ==
    IF pc = "fetch"
    THEN <<MaxPages - n_pages, 1, (MaxRateLimited - rl_page) + internal_errors_left, 0>>
    ELSE IF internal_errors_left <= 0
    THEN <<MaxPages - n_pages, 0, 0, 0>>
    ELSE IF pc = "items"
    THEN <<MaxPages - n_pages, 2, 2 * (Len(res.items) - i + 1), 0>>
    ELSE <<MaxPages - n_pages, 2, 2 * (Len(res.items) - i + 1) - 1, Len(reacts) - j + 1>>

Less(a, b) ==
    \E k \in DOMAIN a : a[k] < b[k] /\ \A m \in 1..(k - 1) : a[m] = b[m]

(***************************************************************************)
(* C19: with the rate-limited failures of a page request and the pages of  *)
(* the remote bounded, every step inside a sweep lowers the work left,     *)
(* which is never negative; a page request ends on a response, on its      *)
(* third internal-error failure or on the fatal error; a sweep ends with   *)
(* its frame written to the cache or with the run aborted on an error; and *)
(* no page request and no sweep lasts for ever: again and again the script *)
(* is outside a fetch and outside a sweep.                                 *)
(***************************************************************************)
C19_Step ==
    /\ (InSweep /\ InSweep') =>
          /\ Less(Rank', Rank)
          /\ \A k \in DOMAIN Rank' : Rank'[k] >= 0
    /\ (pc = "fetch" /\ pc' # "fetch") =>
          \/ pc' = "items" /\ last_exc'.error = "none" /\ res' = fed'[Len(fed')]
          \/ pc' = "items" /\ ie_page' = InternalErrorBudget /\ res' = EmptyPage
          \/ pc' = "aborted" /\ error' = "SlackApiError"
    /\ (InSweep /\ ~InSweep') =>
          \/ /\ pc' = "main"
             /\ users[idx].name \in DOMAIN cache'
             /\ cache'[users[idx].name] = ToFrame(user_reactions)
          \/ pc' = "aborted" /\ error' \in {"SlackApiError", "KeyError"}

C19_Terminates ==
    /\ [][C19_Step]_vars
    /\ []<>(pc # "fetch")
    /\ []<>(~InSweep)

\* a sweep of two pages, the second of them rate-limited before it came, is
\* over and its frame is in the cache
C19_Witness ==
    /\ pc = "main"
    /\ Len(fed) = 2
    /\ retried
    /\ sweeps # <<>>
    /\ sweeps[Len(sweeps)] \in DOMAIN collected
    /\ collected[sweeps[Len(sweeps)]] # {}
    /\ cache[users[MemberOf(sweeps[Len(sweeps)])].name] = collected[sweeps[Len(sweeps)]]

====
